---- MODULE Spec2Model ----
(***************************************************************************)
(* Model of the decree-extraction pipeline of analisador_ver3.py and       *)
(* analisador_ver4.py: segmentation of the corpus, one oracle call per     *)
(* admissible block, accumulation of the extracted records, assembly of    *)
(* the three report tables ("quadros") and the monetary formatter          *)
(* formatar_valor_brl.                                                     *)
(*                                                                         *)
(* Text is a sequence of one-character strings wherever the code looks at  *)
(* characters (the formatter); names of funding sources and the corpus     *)
(* tokens are atomic strings.                                              *)
(***************************************************************************)
EXTENDS Integers, Sequences, FiniteSets, TLC

VARIABLES
    variante,              \* which script runs: "ver3" or "ver4"
    pc,                    \* position of the script
    api_key,               \* os.getenv("GOOGLE_API_KEY") is set
    arquivo_existe,        \* the input file can be opened
    texto_completo,        \* the corpus, a sequence of tokens
    blocos_decretos,       \* the fragments produced by re.split
    i,                     \* loop index of "for i, bloco in enumerate(...)"
    respostas,             \* every call made so far: block, request, outcome
    lista_final_decretos,  \* the accumulated records
    excecao,               \* the uncaught exception that ended the run, or "nenhuma"
    resposta_json_str,     \* what enviar_prompt_para_bloco returned for block i
    d,                     \* loop index of "for dec in lista_final_decretos"
    q1_linhas, q2_linhas, q3_linhas,   \* the rows of the three tables
    arquivos,              \* the CSV files written
    valor_str,             \* argument of a stand-alone call of formatar_valor_brl
    retorno                \* its return value

vars == <<variante, pc, api_key, arquivo_existe, texto_completo, blocos_decretos, i,
          respostas, lista_final_decretos, excecao, resposta_json_str, d, q1_linhas, q2_linhas,
          q3_linhas, arquivos, valor_str, retorno>>

(***************************************************************************)
(* Bounds of the model.                                                    *)
(***************************************************************************)
MaxLen == 3        \* longest generated argument of formatar_valor_brl
MaxFontes == 3     \* longest "fontes" list of a generated record
MaxBlocos == 3     \* most decree blocks in a generated corpus
MaxTexto == 4      \* most tokens of a corpus generated for segmentation alone

(***************************************************************************)
(* Python values that reach formatar_valor_brl: a str, a float, an int or  *)
(* None (JSON string, number, null).  A float is its integer part and the  *)
(* digits of its fraction as repr() prints them.                           *)
(***************************************************************************)
PyStr(s) == [py |-> "str", s |-> s, n |-> 0, casas |-> <<>>]
PyFloat(n, casas) == [py |-> "float", s |-> <<>>, n |-> n, casas |-> casas]
PyInt(n) == [py |-> "int", s |-> <<>>, n |-> n, casas |-> <<>>]
PyNone == [py |-> "None", s |-> <<>>, n |-> 0, casas |-> <<>>]

Digitos == <<"0", "1", "2", "3", "4", "5", "6", "7", "8", "9">>
EhDigito(c) == \E k \in 1..10 : Digitos[k] = c
ValorDigito(c) == (CHOOSE k \in 1..10 : Digitos[k] = c) - 1

\* decimal digits of a natural number, most significant first
RECURSIVE DigitosDe(_)
DigitosDe(n) == IF n < 10 THEN <<Digitos[n + 1]>>
                ELSE DigitosDe(n \div 10) \o <<Digitos[(n % 10) + 1]>>

\* str(valor_str)
Str(v) == CASE v.py = "str" -> v.s
            [] v.py = "float" -> DigitosDe(v.n) \o <<".">> \o v.casas
            [] v.py = "int" -> DigitosDe(v.n)
            [] OTHER -> <<"N", "o", "n", "e">>

\* re.sub(r'[^\d,]', '', s)
RECURSIVE SoDigitosEVirgula(_)
SoDigitosEVirgula(s) ==
    IF s = <<>> THEN <<>>
    ELSE IF EhDigito(Head(s)) \/ Head(s) = ","
         THEN <<Head(s)>> \o SoDigitosEVirgula(Tail(s))
         ELSE SoDigitosEVirgula(Tail(s))

\* s.replace(a, b) for one-character a and b
Replace(s, a, b) == [k \in 1..Len(s) |-> IF s[k] = a THEN b ELSE s[k]]

Posicoes(s, c) == {k \in 1..Len(s) : s[k] = c}

\* a variant that reads a string without digits as zero
DecimalValido_SemDigitos(s) == Cardinality(Posicoes(s, ".")) <= 1
\* Decimal(s) accepts, among the strings of digits and points, those with at
\* most one point and at least one digit; any other raises InvalidOperation.
DecimalValido(s) ==
    /\ Cardinality(Posicoes(s, ".")) <= 1
    /\ \E k \in 1..Len(s) : EhDigito(s[k])

RECURSIVE NumeroDe(_)
NumeroDe(ds) == IF ds = <<>> THEN 0
                ELSE NumeroDe(SubSeq(ds, 1, Len(ds) - 1)) * 10 + ValorDigito(ds[Len(ds)])

\* Decimal(s) for a valid s: the integer part and the digits of the fraction
Decimal(s) ==
    LET p == IF Posicoes(s, ".") = {} THEN Len(s) + 1
             ELSE CHOOSE k \in Posicoes(s, ".") : TRUE
    IN [int |-> NumeroDe(SubSeq(s, 1, p - 1)), frac |-> SubSeq(s, p + 1, Len(s))]

\* the digit at position k of a fraction, 0 past its end
Casa(frac, k) == IF k <= Len(frac) THEN ValorDigito(frac[k]) ELSE 0

\* quantize to two places, ROUND_HALF_EVEN (the default context of decimal)
Arredonda2(dec) ==
    LET c2 == Casa(dec.frac, 1) * 10 + Casa(dec.frac, 2)
        resto == SubSeq(dec.frac, 3, Len(dec.frac))
        acima == \/ Casa(dec.frac, 3) > 5
                 \/ /\ Casa(dec.frac, 3) = 5
                    /\ \E k \in 2..Len(resto) : ValorDigito(resto[k]) > 0
        meio == /\ Casa(dec.frac, 3) = 5
                /\ \A k \in 2..Len(resto) : ValorDigito(resto[k]) = 0
        sobe == acima \/ (meio /\ c2 % 2 = 1)
        c == IF sobe THEN c2 + 1 ELSE c2
    IN IF c = 100 THEN [int |-> dec.int + 1, cent |-> 0]
       ELSE [int |-> dec.int, cent |-> c]

\* the ',' option of format(): groups of three digits from the right
RECURSIVE Milhares(_)
Milhares(ds) == IF Len(ds) <= 3 THEN ds
                ELSE Milhares(SubSeq(ds, 1, Len(ds) - 3)) \o <<",">>
                     \o SubSeq(ds, Len(ds) - 2, Len(ds))

\* f'{valor_decimal:,.2f}'
FormatoF2(dec) ==
    LET r == Arredonda2(dec)
    IN Milhares(DigitosDe(r.int)) \o <<".">>
       \o <<Digitos[(r.cent \div 10) + 1], Digitos[(r.cent % 10) + 1]>>

\* .replace(',', 'X').replace('.', ',').replace('X', '.')
TrocaSeparadores(s) == Replace(Replace(Replace(s, ",", "X"), ".", ","), "X", ".")

formatar_valor_brl(v) ==
    LET valor_limpo == Replace(SoDigitosEVirgula(Str(v)), ",", ".")
    IN IF DecimalValido(valor_limpo)
       THEN PyStr(TrocaSeparadores(FormatoF2(Decimal(valor_limpo))))
       ELSE v

(***************************************************************************)
(* Python's None in a string-valued field, and dict.get.                   *)
(***************************************************************************)
Nulo == "None"

\* dct.get(k) for a string-valued key: None when the key is absent
Get(dct, k) == IF k \in DOMAIN dct THEN dct[k] ELSE Nulo
\* dct.get(k) for a monetary key
GetValor(dct, k) == IF k \in DOMAIN dct THEN dct[k] ELSE PyNone
\* dec.get('fontes', [])
GetFontes(dec) == IF "fontes" \in DOMAIN dec THEN dec["fontes"] ELSE <<>>
\* truth value of a str-or-None
Verdadeiro(x) == x # Nulo /\ x # ""

(***************************************************************************)
(* The corpus.  A token is a newline, a decree header that the split       *)
(* pattern matches, an article marker, other text or blank space.          *)
(***************************************************************************)
NL == "\n"
Cabecalhos == {"DECRETO Nº", "Decreto Orçamentário Nº"}
MarcasArt1 == {"Art. 1º"}
MarcasArt2 == {"Art. 2º"}
Brancos == {NL, " "}

\* re.split(r'\n(?=DECRETO(?: Orçamentário)?\s+N[º°]\.?)', texto, flags=re.IGNORECASE):
\* the newline is consumed, the header stays at the start of the next piece.
RECURSIVE Split(_, _)
Split(texto, atual) ==
    IF texto = <<>> THEN <<atual>>
    ELSE IF Head(texto) = NL /\ Len(texto) >= 2 /\ texto[2] \in Cabecalhos
         THEN <<atual>> \o Split(Tail(texto), <<>>)
         ELSE Split(Tail(texto), Append(atual, Head(texto)))

\* not bloco.strip()
EmBranco(bloco) == \A k \in 1..Len(bloco) : bloco[k] \in Brancos

\* re.search(marker, bloco, re.IGNORECASE)
Contem(bloco, marcas) == \E k \in 1..Len(bloco) : bloco[k] \in marcas

\* a variant that drops the first block whatever it holds
Fatias_SemprePop(texto) == Tail(Split(texto, <<>>))
\* the blocks after "if not blocos_decretos[0].strip(): blocos_decretos.pop(0)"
Fatias(texto) ==
    LET partes == Split(texto, <<>>)
    IN IF EmBranco(partes[1]) THEN Tail(partes) ELSE partes

\* the keyword ver4 puts in front of a block before sending it
PalavraDecreto == "DECRETO "

\* the argument of enviar_prompt_para_bloco: bloco in ver3, "DECRETO " + bloco
\* in ver4
TextoEnviado(v, bloco) == IF v = "ver4" THEN <<PalavraDecreto>> \o bloco ELSE bloco

\* the f-string of enviar_prompt_para_bloco: the instructions around the
\* <texto_decreto> region, which holds texto_bloco
Prompt(texto_bloco) ==
    [antes |-> "instrucoes <texto_decreto>", regiao |-> texto_bloco,
     depois |-> "</texto_decreto> regras"]

\* the filter at the top of the loop body, negated
Admissivel(bloco) ==
    ~EmBranco(bloco) /\ Contem(bloco, MarcasArt1) /\ Contem(bloco, MarcasArt2)

BlocoCompleto == <<"DECRETO Nº", "texto", "Art. 1º", "texto", "Art. 2º", "texto">>
BlocoSemArt2 == <<"Decreto Orçamentário Nº", "texto", "Art. 1º", "texto">>
BlocosModelo == {BlocoCompleto, BlocoSemArt2}
Prefixos == {<<>>, <<" ">>, <<"texto">>}

RECURSIVE Juntar(_)
Juntar(bs) == IF bs = <<>> THEN <<>> ELSE <<NL>> \o Head(bs) \o Juntar(Tail(bs))

SeqsAte(S, n) == UNION {[1..k -> S] : k \in 0..n}

\* the corpora of the model: an optional preamble, then up to MaxBlocos blocks,
\* each on a line of its own
Corpora ==
    {IF p = <<>> /\ bs # <<>> THEN Tail(Juntar(bs)) ELSE p \o Juntar(bs) :
        p \in Prefixos, bs \in SeqsAte(BlocosModelo, MaxBlocos)}

(***************************************************************************)
(* What enviar_prompt_para_bloco returns: None when the call raised, else  *)
(* the reply text, stripped and without its code fence.  The text is       *)
(* modelled by what json.loads makes of it: it is empty, it is no JSON, or *)
(* it is a JSON value.  Of a JSON value the loop reads its type, whether   *)
(* `key in dados` holds (a key of an object, an element of a list, a       *)
(* substring of a string), whether dados[key] is a list, and its items.    *)
(***************************************************************************)
Json(t, chaves, vlista, itens) ==
    [t |-> t, chaves |-> chaves, vlista |-> vlista, itens |-> itens]
SemJson == Json("-", {}, FALSE, <<>>)

RespNone == [falha |-> TRUE, texto |-> "-", json |-> SemJson]
RespVazia == [falha |-> FALSE, texto |-> "vazio", json |-> SemJson]
RespLixo == [falha |-> FALSE, texto |-> "lixo", json |-> SemJson]
RespJson(j) == [falha |-> FALSE, texto |-> "json", json |-> j]

\* the top-level key the loop of each script reads
ChaveRaiz(v) == IF v = "ver3" THEN "decretos" ELSE "quadro1"
OutraChave(v) == IF v = "ver3" THEN "quadro1" ELSE "decretos"

\* a reply with the required list-valued key and these records
RespDecretos(v, itens) == RespJson(Json("dict", {ChaveRaiz(v)}, TRUE, itens))

\* json.loads(resposta_json_str): the value, or the exception it raises
JsonLoads(resp) ==
    IF resp.falha THEN [erro |-> "TypeError", dados |-> SemJson]
    ELSE IF resp.texto # "json" THEN [erro |-> "JSONDecodeError", dados |-> SemJson]
    ELSE [erro |-> "nenhuma", dados |-> resp.json]

\* `chave in dados and isinstance(dados[chave], list)`: "sim", "nao", or the
\* TypeError of `in` on a number or null and of a str index on a str or list
ChaveComLista(dados, chave) ==
    CASE dados.t \in {"null", "num"} -> "TypeError"
      [] dados.t \in {"str", "list"} ->
            IF chave \in dados.chaves THEN "TypeError" ELSE "nao"
      [] OTHER -> IF chave \in dados.chaves /\ dados.vlista THEN "sim" ELSE "nao"

\* a variant whose try has no except clause
TratarCarga_SemExcept(v, carga, lista) ==
    IF carga.erro # "nenhuma" THEN [lista |-> lista, erro |-> carga.erro]
    ELSE LET tem == ChaveComLista(carga.dados, ChaveRaiz(v))
         IN IF tem = "TypeError" THEN [lista |-> lista, erro |-> "TypeError"]
            ELSE IF tem = "sim" /\ (v = "ver3" \/ Len(carga.dados.itens) > 0)
                 THEN [lista |-> lista \o carga.dados.itens, erro |-> "nenhuma"]
                 ELSE [lista |-> lista, erro |-> "nenhuma"]
\* a variant that puts the records of a reply in front of the earlier ones
TratarCarga_NaFrente(v, carga, lista) ==
    IF carga.erro = "JSONDecodeError" THEN [lista |-> lista, erro |-> "nenhuma"]
    ELSE IF carga.erro # "nenhuma" THEN [lista |-> lista, erro |-> carga.erro]
    ELSE LET tem == ChaveComLista(carga.dados, ChaveRaiz(v))
         IN IF tem = "TypeError" THEN [lista |-> lista, erro |-> "TypeError"]
            ELSE IF tem = "sim" /\ (v = "ver3" \/ Len(carga.dados.itens) > 0)
                 THEN [lista |-> carga.dados.itens \o lista, erro |-> "nenhuma"]
                 ELSE [lista |-> lista, erro |-> "nenhuma"]
\* the try/except of the loop body after json.loads answered `carga`; only
\* json.JSONDecodeError is caught.  ver4 also wants a non-empty list.
TratarCarga(v, carga, lista) ==
    IF carga.erro = "JSONDecodeError" THEN [lista |-> lista, erro |-> "nenhuma"]
    ELSE IF carga.erro # "nenhuma" THEN [lista |-> lista, erro |-> carga.erro]
    ELSE LET tem == ChaveComLista(carga.dados, ChaveRaiz(v))
         IN IF tem = "TypeError" THEN [lista |-> lista, erro |-> "TypeError"]
            ELSE IF tem = "sim" /\ (v = "ver3" \/ Len(carga.dados.itens) > 0)
                 THEN [lista |-> lista \o carga.dados.itens, erro |-> "nenhuma"]
                 ELSE [lista |-> lista, erro |-> "nenhuma"]

\* the loop body after the call: ver3 guards it with `if resposta_json_str:`
\* (None and "" are false), ver4 does not
TratarResposta(v, resp, lista) ==
    IF v = "ver3" /\ (resp.falha \/ resp.texto = "vazio")
    THEN [lista |-> lista, erro |-> "nenhuma"]
    ELSE TratarCarga(v, JsonLoads(resp), lista)

(***************************************************************************)
(* Assembly of the three tables from one record (a dict).                  *)
(***************************************************************************)
Excesso == "Excesso de Arrecadação"
NaoEncontrado == "Não encontrado"

\* the names of the model in the order Python compares str (by code point)
OrdemNomes == <<"Anulação de Dotações", "Excesso de Arrecadação",
                "Excesso de arrecadação", "Superávit Financeiro">>
Posicao(nome) == CHOOSE k \in 1..Len(OrdemNomes) : OrdemNomes[k] = nome
Menor(a, b) == Posicao(a) < Posicao(b)

\* [f.get('nome_da_fonte') for f in fontes if f.get('nome_da_fonte')]
RECURSIVE NomesVerdadeiros(_)
NomesVerdadeiros(fontes) ==
    IF fontes = <<>> THEN <<>>
    ELSE LET nome == Get(Head(fontes), "nome_da_fonte")
         IN (IF Verdadeiro(nome) THEN <<nome>> ELSE <<>>)
            \o NomesVerdadeiros(Tail(fontes))

\* list(set(nomes)): every name once
RECURSIVE SemRepetidos(_)
SemRepetidos(nomes) ==
    IF nomes = <<>> THEN <<>>
    ELSE LET resto == SemRepetidos(Tail(nomes))
         IN IF \E k \in 1..Len(resto) : resto[k] = Head(nomes)
            THEN resto ELSE <<Head(nomes)>> \o resto

\* sorted(nomes)
RECURSIVE Inserir(_, _)
Inserir(x, s) ==
    IF s = <<>> THEN <<x>>
    ELSE IF Menor(Head(s), x) \/ Head(s) = x
         THEN <<Head(s)>> \o Inserir(x, Tail(s))
         ELSE <<x>> \o s
RECURSIVE Sorted(_)
Sorted(nomes) == IF nomes = <<>> THEN <<>>
                 ELSE Inserir(Head(nomes), Sorted(Tail(nomes)))

\* a variant that keeps repeated names (sorted(list) without set)
NomesFontes_ComRepetidos(fontes) == Sorted(NomesVerdadeiros(fontes))
\* sorted(list(set([...])))
NomesFontes(fontes) == Sorted(SemRepetidos(NomesVerdadeiros(fontes)))

\* ", ".join(nomes)
RECURSIVE Join(_)
Join(nomes) == IF nomes = <<>> THEN ""
               ELSE IF Len(nomes) = 1 THEN Head(nomes)
               ELSE Head(nomes) \o ", " \o Join(Tail(nomes))

\* a variant that writes the summary row once per funding source
LinhasQuadro1_PorFonte(dec) ==
    [k \in 1..Len(GetFontes(dec)) |->
        [numero_do_decreto |-> Get(dec, "numero_decreto"),
         data_do_decreto |-> Get(dec, "data_decreto"),
         valor_do_decreto |-> formatar_valor_brl(GetValor(dec, "valor_total")),
         tipo_de_credito |-> Get(dec, "tipo_credito"),
         fonte_de_recurso |-> Join(NomesFontes(GetFontes(dec)))]]
\* q1_linhas.append({...}): the rows one record adds to Table 1
LinhasQuadro1(dec) ==
    <<[numero_do_decreto |-> Get(dec, "numero_decreto"),
       data_do_decreto |-> Get(dec, "data_decreto"),
       valor_do_decreto |-> formatar_valor_brl(GetValor(dec, "valor_total")),
       tipo_de_credito |-> Get(dec, "tipo_credito"),
       fonte_de_recurso |-> Join(NomesFontes(GetFontes(dec)))]>>

LinhaQuadro2(dec, fonte) ==
    [numero_do_decreto |-> Get(dec, "numero_decreto"),
     data_do_decreto |-> Get(dec, "data_decreto"),
     valor_da_fonte |-> formatar_valor_brl(GetValor(fonte, "valor_da_fonte")),
     fonte_de_recurso |-> Get(fonte, "nome_da_fonte")]

\* a variant that also details a single funding source (len(fontes) > 0)
LinhasQuadro2_UmaFonte(dec) ==
    [k \in 1..Len(GetFontes(dec)) |-> LinhaQuadro2(dec, GetFontes(dec)[k])]
\* if len(fontes) > 1: one row per funding source
LinhasQuadro2(dec) ==
    IF Len(GetFontes(dec)) > 1
    THEN [k \in 1..Len(GetFontes(dec)) |-> LinhaQuadro2(dec, GetFontes(dec)[k])]
    ELSE <<>>

\* a variant without the fallback
CodigoDaFonte_SemPadrao(fonte) == Get(fonte, "codigo_fonte")
\* fonte.get('codigo_fonte') or 'Não encontrado'
CodigoDaFonte(fonte) ==
    IF Verdadeiro(Get(fonte, "codigo_fonte")) THEN Get(fonte, "codigo_fonte")
    ELSE NaoEncontrado

LinhaQuadro3(dec, fonte) ==
    [numero_do_decreto |-> Get(dec, "numero_decreto"),
     data_do_decreto |-> Get(dec, "data_decreto"),
     fonte_de_recurso |-> Get(fonte, "nome_da_fonte"),
     codigo_da_fonte |-> CodigoDaFonte(fonte)]

\* for fonte in fontes: if fonte.get('nome_da_fonte') == "Excesso de Arrecadação"
RECURSIVE FiltraExcesso(_, _)
FiltraExcesso(dec, fontes) ==
    IF fontes = <<>> THEN <<>>
    ELSE (IF Get(Head(fontes), "nome_da_fonte") = Excesso
          THEN <<LinhaQuadro3(dec, Head(fontes))>> ELSE <<>>)
         \o FiltraExcesso(dec, Tail(fontes))

\* a variant under the guard of Table 2 (len(fontes) > 1)
LinhasQuadro3_SoVarias(dec) ==
    IF Len(GetFontes(dec)) > 1 THEN FiltraExcesso(dec, GetFontes(dec)) ELSE <<>>
\* the rows one record adds to Table 3
LinhasQuadro3(dec) == FiltraExcesso(dec, GetFontes(dec))

(***************************************************************************)
(* The records and replies of the model.                                   *)
(***************************************************************************)
Fonte(nome, valor, codigo) ==
    [nome_da_fonte |-> nome, valor_da_fonte |-> valor, codigo_fonte |-> codigo]

Decreto(numero, valor, fontes) ==
    [numero_decreto |-> numero, data_decreto |-> "28 de Dezembro de 2023",
     valor_total |-> valor, tipo_credito |-> "Créditos Suplementares",
     fontes |-> fontes]

Codigo10 == "1500000000"
Valor2041680 == PyStr(<<"2", ".", "0", "4", "1", ".", "6", "8", "0", ",", "0", "0">>)
Valor1000_50 == PyStr(<<"1", ".", "0", "0", "0", ",", "5", "0">>)

DecretoUmaFonte ==
    Decreto("13/2023", Valor2041680,
            <<Fonte("Anulação de Dotações", Valor2041680, Nulo)>>)
DecretoDuasFontes ==
    Decreto("12/2023", PyInt(1500),
            <<Fonte("Anulação de Dotações", Valor1000_50, Nulo),
              Fonte(Excesso, PyFloat(499, <<"5">>), Codigo10)>>)

DecretoDoisExcessos ==
    Decreto("15/2023", PyInt(1500),
            <<Fonte(Excesso, Valor1000_50, "1753000000"),
              Fonte(Excesso, PyFloat(499, <<"5">>), Codigo10)>>)

\* the rows of the reply the prompt of ver4 asks for: the root holds "quadro1",
\* "quadro2" and "quadro3", each a list of flat rows, and no row has "fontes"
Quadro1Plano(numero, valor, fonte, codigo) ==
    [numero_decreto |-> numero, data_decreto |-> "28 de Dezembro de 2023",
     valor_total |-> valor, tipo_credito |-> "Créditos Suplementares",
     fonte_recurso |-> fonte, codigo_fonte |-> codigo]
Quadro2Plano(numero, valor, fonte) ==
    [numero_decreto |-> numero, data_decreto |-> "28 de Dezembro de 2023",
     valor_decreto |-> valor, fonte_recurso |-> fonte]
Quadro3Plano(numero, fonte, codigo) ==
    [numero_decreto |-> numero, data_decreto |-> "28 de Dezembro de 2023",
     fonte_recurso |-> fonte, codigo_fonte |-> codigo]

\* a reply of that shape; the loop reads "quadro1" only
RespQuadros(q1, q2, q3) ==
    RespJson([t |-> "dict", chaves |-> {"quadro1", "quadro2", "quadro3"},
              vlista |-> TRUE, itens |-> q1, quadro2 |-> q2, quadro3 |-> q3])

\* DecretoUmaFonte and DecretoDuasFontes as replies of that shape
QuadrosUmaFonte ==
    RespQuadros(<<Quadro1Plano("13/2023", Valor2041680, "Anulação de Dotações", Nulo)>>,
                <<Quadro2Plano("13/2023", Valor2041680, "Anulação de Dotações")>>,
                <<>>)
QuadrosDuasFontes ==
    RespQuadros(<<Quadro1Plano("12/2023", PyInt(1500),
                               "Anulação de Dotações, Excesso de Arrecadação", Codigo10)>>,
                <<Quadro2Plano("12/2023", Valor1000_50, "Anulação de Dotações"),
                  Quadro2Plano("12/2023", PyFloat(499, <<"5">>), Excesso)>>,
                <<Quadro3Plano("12/2023", Excesso, Codigo10)>>)

\* funding sources as the oracle may return them: every name of the model, a
\* code that is present, null, empty or missing, a name that is empty or missing
FontesModelo ==
    {Fonte("Anulação de Dotações", Valor1000_50, Nulo),
     Fonte(Excesso, Valor1000_50, Codigo10),
     Fonte(Excesso, PyInt(1500), Nulo),
     Fonte(Excesso, PyNone, ""),
     [nome_da_fonte |-> Excesso, valor_da_fonte |-> Valor1000_50],
     Fonte("Superávit Financeiro", PyFloat(499, <<"5">>), Nulo),
     Fonte("", Valor1000_50, Nulo),
     [valor_da_fonte |-> Valor1000_50, codigo_fonte |-> Nulo],
     Fonte("Excesso de arrecadação", Valor1000_50, Codigo10)}

DecretosModelo ==
    {Decreto("13/2023", Valor2041680, fs) : fs \in SeqsAte(FontesModelo, MaxFontes)}
    \cup {[numero_decreto |-> "14/2023", valor_total |-> PyNone]}

\* the accumulated records the assembly is explored from
ListasModelo ==
    {<<dec>> : dec \in DecretosModelo}
    \cup {<<DecretoDuasFontes, dec>> : dec \in DecretosModelo}

\* what the oracle call of one block may return to the loop of script v
RespostasModelo(v) ==
    {RespNone, RespVazia, RespLixo,
     RespJson(Json("null", {}, FALSE, <<>>)),
     RespJson(Json("num", {}, FALSE, <<>>)),
     RespJson(Json("str", {"decretos", "quadro1"}, FALSE, <<>>)),
     RespJson(Json("list", {"decretos", "quadro1"}, FALSE, <<>>)),
     RespJson(Json("list", {}, FALSE, <<>>)),
     RespJson(Json("dict", {OutraChave(v)}, TRUE, <<DecretoUmaFonte>>)),
     RespJson(Json("dict", {ChaveRaiz(v)}, FALSE, <<>>)),
     RespDecretos(v, <<>>),
     RespDecretos(v, <<DecretoUmaFonte>>),
     RespDecretos(v, <<DecretoDuasFontes>>),
     RespDecretos(v, <<DecretoDoisExcessos>>),
     QuadrosUmaFonte, QuadrosDuasFontes,
     RespDecretos(v, <<DecretoUmaFonte, DecretoDuasFontes>>)}

\* arguments of formatar_valor_brl: every string of at most MaxLen characters
\* of the alphabet, and the values the documentation speaks of
Alfabeto == {"0", "1", "5", ",", ".", "g"}
Entradas ==
    {PyStr(s) : s \in SeqsAte(Alfabeto, MaxLen)}
    \cup {PyStr(<<"2", ".", "0", "4", "1", ".", "6", "8", "0", ",", "0", "0">>), PyStr(<<"g", "a", "r", "b", "a", "g", "e">>), PyStr(<<"1", ",", "2", ",", "3">>), PyStr(<<"0", ",", "1", "2", "5">>),
          PyStr(<<"0", ",", "1", "3", "5">>), PyStr(<<"9", "9", "9", ",", "9", "9", "5">>), PyStr(<<"R", "$", " ", "1", ".", "0", "0", "0", ",", "5", "0">>), PyStr(<<"-", "1", "2", ",", "5">>),
          PyFloat(1884373, <<"3">>), PyFloat(1234567, <<"8">>),
          PyFloat(12, <<"2", "5">>), PyInt(1500), PyInt(0), PyNone}

(***************************************************************************)
(* The script as a state machine.                                          *)
(***************************************************************************)
SemTabelas ==
    /\ d = 0
    /\ q1_linhas = <<>> /\ q2_linhas = <<>> /\ q3_linhas = <<>>
    /\ arquivos = {}

SemFormatador == valor_str = PyNone /\ retorno = PyNone

\* the state when the interpreter starts the script
Init ==
    /\ variante \in {"ver3", "ver4"}
    /\ pc = "config"
    /\ api_key \in BOOLEAN
    /\ arquivo_existe \in BOOLEAN
    /\ texto_completo \in Corpora
    /\ blocos_decretos = <<>>
    /\ i = 0
    /\ respostas = <<>>
    /\ resposta_json_str = RespNone
    /\ lista_final_decretos = <<>>
    /\ excecao = "nenhuma"
    /\ SemTabelas
    /\ SemFormatador

\* load_dotenv(); if not api_key: raise ValueError(...)
Configurar ==
    /\ pc = "config"
    /\ IF api_key THEN pc' = "abrir" /\ excecao' = excecao
       ELSE pc' = "abortado" /\ excecao' = "ValueError"
    /\ UNCHANGED <<variante, api_key, arquivo_existe, texto_completo, blocos_decretos,
                   i, respostas, resposta_json_str, lista_final_decretos, d, q1_linhas,
                   q2_linhas, q3_linhas, arquivos, valor_str, retorno>>

\* open(arquivo_alvo).read(): ver4 catches FileNotFoundError and calls exit(),
\* ver3 lets it propagate
AbrirArquivo ==
    /\ pc = "abrir"
    /\ IF arquivo_existe THEN pc' = "fatiar" /\ excecao' = excecao
       ELSE /\ pc' = "abortado"
            /\ excecao' = IF variante = "ver4" THEN "SystemExit" ELSE "FileNotFoundError"
    /\ UNCHANGED <<variante, api_key, arquivo_existe, texto_completo, blocos_decretos,
                   i, respostas, resposta_json_str, lista_final_decretos, d, q1_linhas,
                   q2_linhas, q3_linhas, arquivos, valor_str, retorno>>

\* re.split(...) and the pop of a blank first block; lista_final_decretos = []
Fatiar ==
    /\ pc = "fatiar"
    /\ blocos_decretos' = Fatias(texto_completo)
    /\ i' = 1
    /\ lista_final_decretos' = <<>>
    /\ pc' = "loop"
    /\ UNCHANGED <<variante, api_key, arquivo_existe, texto_completo, respostas,
                   resposta_json_str, excecao, d, q1_linhas, q2_linhas, q3_linhas,
                   arquivos, valor_str, retorno>>

\* the `continue` of a block that fails the filter
PularBloco ==
    /\ pc = "loop"
    /\ i <= Len(blocos_decretos)
    /\ ~Admissivel(blocos_decretos[i])
    /\ i' = i + 1
    /\ UNCHANGED <<variante, pc, api_key, arquivo_existe, texto_completo,
                   blocos_decretos, respostas, resposta_json_str, lista_final_decretos,
                   excecao, d, q1_linhas, q2_linhas, q3_linhas, arquivos, valor_str,
                   retorno>>

\* resposta_json_str = enviar_prompt_para_bloco(bloco): one call, whose
\* outcome is the oracle's
EnviarPrompt ==
    /\ pc = "loop"
    /\ i <= Len(blocos_decretos)
    /\ Admissivel(blocos_decretos[i])
    /\ \E resp \in RespostasModelo(variante) :
          /\ resposta_json_str' = resp
          /\ respostas' = Append(respostas,
                [bloco |-> i,
                 prompt |-> Prompt(TextoEnviado(variante, blocos_decretos[i])),
                 resp |-> resp])
    /\ pc' = "resposta"
    /\ UNCHANGED <<variante, api_key, arquivo_existe, texto_completo, blocos_decretos,
                   i, lista_final_decretos, excecao, d, q1_linhas, q2_linhas,
                   q3_linhas, arquivos, valor_str, retorno>>

\* the rest of the loop body; an exception that no except clause names ends the run
ProcessarResposta ==
    /\ pc = "resposta"
    /\ LET r == TratarResposta(variante, resposta_json_str, lista_final_decretos)
       IN IF r.erro = "nenhuma"
          THEN /\ lista_final_decretos' = r.lista
               /\ i' = i + 1
               /\ pc' = "loop"
               /\ excecao' = excecao
          ELSE /\ pc' = "abortado"
               /\ excecao' = r.erro
               /\ UNCHANGED <<lista_final_decretos, i>>
    /\ UNCHANGED <<variante, api_key, arquivo_existe, texto_completo, blocos_decretos,
                   respostas, resposta_json_str, d, q1_linhas, q2_linhas, q3_linhas,
                   arquivos, valor_str, retorno>>

\* the loop is over: `if lista_final_decretos:` opens the assembly or ends the run
ConcluirAnalise ==
    /\ pc = "loop"
    /\ i > Len(blocos_decretos)
    /\ IF lista_final_decretos # <<>>
       THEN pc' = "montar" /\ d' = 1
       ELSE pc' = "fim" /\ d' = d
    /\ q1_linhas' = <<>> /\ q2_linhas' = <<>> /\ q3_linhas' = <<>>
    /\ UNCHANGED <<variante, api_key, arquivo_existe, texto_completo, blocos_decretos,
                   i, respostas, resposta_json_str, lista_final_decretos, excecao,
                   arquivos, valor_str, retorno>>

\* one iteration of `for dec in lista_final_decretos`
MontarDecreto ==
    /\ pc = "montar"
    /\ d <= Len(lista_final_decretos)
    /\ q1_linhas' = q1_linhas \o LinhasQuadro1(lista_final_decretos[d])
    /\ q2_linhas' = q2_linhas \o LinhasQuadro2(lista_final_decretos[d])
    /\ q3_linhas' = q3_linhas \o LinhasQuadro3(lista_final_decretos[d])
    /\ d' = d + 1
    /\ UNCHANGED <<variante, pc, api_key, arquivo_existe, texto_completo,
                   blocos_decretos, i, respostas, resposta_json_str,
                   lista_final_decretos, excecao, arquivos, valor_str, retorno>>

\* the three DataFrames and their to_csv
SalvarQuadros ==
    /\ pc = "montar"
    /\ d > Len(lista_final_decretos)
    /\ arquivos' = {[nome |-> "quadro1" \o variante, linhas |-> q1_linhas],
                    [nome |-> "quadro2" \o variante, linhas |-> q2_linhas],
                    [nome |-> "quadro3" \o variante, linhas |-> q3_linhas]}
    /\ pc' = "fim"
    /\ UNCHANGED <<variante, api_key, arquivo_existe, texto_completo, blocos_decretos,
                   i, respostas, resposta_json_str, lista_final_decretos, excecao, d,
                   q1_linhas, q2_linhas, q3_linhas, valor_str, retorno>>

Next ==
    \/ Configurar
    \/ AbrirArquivo
    \/ Fatiar
    \/ PularBloco
    \/ EnviarPrompt
    \/ ProcessarResposta
    \/ ConcluirAnalise
    \/ MontarDecreto
    \/ SalvarQuadros

Spec == Init /\ [][Next]_vars

(***************************************************************************)
(* The assembly explored over every record of DecretosModelo: the runs     *)
(* start where the loop over a one-block corpus has just ended, the oracle *)
(* having returned the records of one list of ListasModelo.                *)
(***************************************************************************)
InitQuadros ==
    /\ variante \in {"ver3", "ver4"}
    /\ pc = "loop"
    /\ api_key = TRUE
    /\ arquivo_existe = TRUE
    /\ texto_completo = BlocoCompleto
    /\ blocos_decretos = <<BlocoCompleto>>
    /\ i = 2
    /\ lista_final_decretos \in ListasModelo
    /\ resposta_json_str = RespDecretos(variante, lista_final_decretos)
    /\ respostas = <<[bloco |-> 1,
                      prompt |-> Prompt(TextoEnviado(variante, BlocoCompleto)),
                      resp |-> resposta_json_str]>>
    /\ excecao = "nenhuma"
    /\ SemTabelas
    /\ SemFormatador

NextQuadros ==
    \/ ConcluirAnalise
    \/ MontarDecreto
    \/ SalvarQuadros

SpecQuadros == InitQuadros /\ [][NextQuadros]_vars

(***************************************************************************)
(* Segmentation alone, on every corpus of at most MaxTexto tokens: the     *)
(* tokens of the model and a line that starts like a header but does not   *)
(* match the pattern.                                                      *)
(***************************************************************************)
Simbolos == {NL, " ", "texto", "DECRETA:", "Art. 1º", "Art. 2º"} \cup Cabecalhos

InitFatias ==
    /\ variante \in {"ver3", "ver4"}
    /\ pc = "fatiar"
    /\ api_key = TRUE
    /\ arquivo_existe = TRUE
    /\ texto_completo \in SeqsAte(Simbolos, MaxTexto)
    /\ blocos_decretos = <<>>
    /\ i = 0
    /\ respostas = <<>>
    /\ resposta_json_str = RespNone
    /\ lista_final_decretos = <<>>
    /\ excecao = "nenhuma"
    /\ SemTabelas
    /\ SemFormatador

NextFatias == Fatiar

SpecFatias == InitFatias /\ [][NextFatias]_vars

(***************************************************************************)
(* formatar_valor_brl called on its own, on every argument of Entradas.    *)
(***************************************************************************)
InitFormatador ==
    /\ variante \in {"ver3", "ver4"}
    /\ pc = "formatar"
    /\ api_key = TRUE
    /\ arquivo_existe = TRUE
    /\ texto_completo = <<>>
    /\ blocos_decretos = <<>>
    /\ i = 0
    /\ respostas = <<>>
    /\ resposta_json_str = RespNone
    /\ lista_final_decretos = <<>>
    /\ excecao = "nenhuma"
    /\ SemTabelas
    /\ valor_str \in Entradas
    /\ retorno = PyNone

Formatar ==
    /\ pc = "formatar"
    /\ retorno' = formatar_valor_brl(valor_str)
    /\ pc' = "formatado"
    /\ UNCHANGED <<variante, api_key, arquivo_existe, texto_completo, blocos_decretos,
                   i, respostas, resposta_json_str, lista_final_decretos, excecao, d,
                   q1_linhas, q2_linhas, q3_linhas, arquivos, valor_str>>

NextFormatador == Formatar

SpecFormatador == InitFormatador /\ [][NextFormatador]_vars

(***************************************************************************)
(* Properties.  Classes of oracle replies as the documentation names them. *)
(***************************************************************************)
\* the call itself failed
FalhaDeTransporte(resp) == resp.falha
\* the reply is text that is no JSON
NaoEhJson(resp) == ~resp.falha /\ resp.texto # "json"
\* the reply is a JSON object with the list-valued key of script v
BemFormada(v, resp) ==
    /\ ~resp.falha /\ resp.texto = "json" /\ resp.json.t = "dict"
    /\ ChaveRaiz(v) \in resp.json.chaves /\ resp.json.vlista
\* the reply is no JSON, or JSON without the list-valued key
Malformada(v, resp) == ~resp.falha /\ ~BemFormada(v, resp)

\* the records of the well-formed replies among the first n, in call order
RECURSIVE RegistrosBemFormados(_, _, _)
RegistrosBemFormados(v, rs, n) ==
    IF n = 0 THEN <<>>
    ELSE RegistrosBemFormados(v, rs, n - 1)
         \o (IF BemFormada(v, rs[n].resp) THEN rs[n].resp.json.itens ELSE <<>>)

\* the blocks of the run that pass the filter, by ordinal
BlocosAdmissiveis ==
    {k \in 1..Len(blocos_decretos) : Admissivel(blocos_decretos[k])}
BlocosEnviados == {respostas[k].bloco : k \in 1..Len(respostas)}

\* the replies whose handling has ended (the last one is still being handled
\* while pc = "resposta")
NumTratadas == IF pc = "resposta" THEN Len(respostas) - 1 ELSE Len(respostas)

\* C1: a transport failure of the call for one admissible block (the adapter
\* returns None) is recovered in ver3 and in ver4: it does not end the run,
\* it adds no record, and every later admissible block is still sent.
C1_TransportFailureRecovered ==
    /\ \A k \in 1..Len(respostas) :
          FalhaDeTransporte(respostas[k].resp)
          => /\ ~(pc = "abortado" /\ k = Len(respostas))
             /\ (pc = "fim" => BlocosEnviados = BlocosAdmissiveis)
    /\ Len(lista_final_decretos)
          <= Len(RegistrosBemFormados(variante, respostas, Len(respostas)))

\* C2: a reply that is no JSON, or JSON of any kind without the list-valued
\* key, adds no record and does not stop the run; only a missing credential
\* or a missing input file halts it.
C2_MalformedResponseIsolated ==
    /\ pc # "abortado" =>
          lista_final_decretos = RegistrosBemFormados(variante, respostas, NumTratadas)
    /\ (pc = "abortado" /\ respostas # <<>>
        /\ Malformada(variante, respostas[Len(respostas)].resp))
       => excecao \in {"ValueError", "FileNotFoundError", "SystemExit"}

\* every reply of the run so far is unparsable text or well-formed
SoLixoOuBemFormadas ==
    \A k \in 1..Len(respostas) :
        NaoEhJson(respostas[k].resp) \/ BemFormada(variante, respostas[k].resp)

NumerosDe(linhas) == [k \in 1..Len(linhas) |-> linhas[k].numero_do_decreto]
NumerosDosRegistros(decs) == [k \in 1..Len(decs) |-> Get(decs[k], "numero_decreto")]

\* C3: in a run that has its credential and its input file, when the oracle
\* answers every admissible block with unparsable text or a well-formed
\* result, no exception ends the run and it ends with Table 1 holding the
\* rows of the records of the well-formed replies, in block order, and none
\* for a block answered with unparsable text (three blocks, the second
\* unparsable: the rows of blocks 1 and 3).
C3_UnparsableReplyDropsOnlyItsBlock ==
    (api_key /\ arquivo_existe /\ SoLixoOuBemFormadas) =>
        /\ pc # "abortado"
        /\ pc = "fim" =>
              /\ BlocosEnviados = BlocosAdmissiveis
              /\ NumerosDe(q1_linhas) =
                    NumerosDosRegistros(
                        RegistrosBemFormados(variante, respostas, Len(respostas)))

C3_Witness ==
    /\ pc = "fim"
    /\ Len(respostas) = 3
    /\ respostas[1].resp = RespDecretos(variante, <<DecretoUmaFonte>>)
    /\ respostas[2].resp = RespLixo
    /\ respostas[3].resp = RespDecretos(variante, <<DecretoDuasFontes>>)
    /\ NumerosDe(q1_linhas) = <<"13/2023", "12/2023">>

\* the number of records the assembly loop has been through
Montados == IF d = 0 THEN 0 ELSE d - 1

NomeDe(fonte) == Get(fonte, "nome_da_fonte")
NomesDasFontes(dec) ==
    [k \in 1..Len(GetFontes(dec)) |-> NomeDe(GetFontes(dec)[k])]

\* the Table 2 rows the documentation gives one record: none for at most one
\* funding source, else one per source in the order of the list
Quadro2Esperado(dec) ==
    IF Len(GetFontes(dec)) >= 2 THEN NomesDasFontes(dec) ELSE <<>>

RECURSIVE Quadro2Ate(_, _)
Quadro2Ate(decs, n) ==
    IF n = 0 THEN <<>> ELSE Quadro2Ate(decs, n - 1) \o Quadro2Esperado(decs[n])

\* C4: a record adds no row to Table 2 when it has one funding source or
\* none, and len(fontes) rows, one per source in list order, when it has two
\* or more.
C4_Table2RowsPerRecord ==
    [k \in 1..Len(q2_linhas) |-> q2_linhas[k].fonte_de_recurso]
        = Quadro2Ate(lista_final_decretos, Montados)

C4_Witness ==
    /\ pc = "fim"
    /\ Len(lista_final_decretos) = 2
    /\ Len(GetFontes(lista_final_decretos[1])) = 2
    /\ Len(GetFontes(lista_final_decretos[2])) = 1
    /\ Len(q2_linhas) = 2

NumExcesso(dec) ==
    Cardinality({k \in 1..Len(GetFontes(dec)) : NomeDe(GetFontes(dec)[k]) = Excesso})

RECURSIVE NumExcessoAte(_, _)
NumExcessoAte(decs, n) ==
    IF n = 0 THEN 0 ELSE NumExcessoAte(decs, n - 1) + NumExcesso(decs[n])

\* C5: the Table 3 rows of a record are as many as its funding sources named
\* exactly "Excesso de Arrecadação", for one source or several; a source of
\* any other name gives no row.
C5_Table3RowsPerRecord ==
    /\ Len(q3_linhas) = NumExcessoAte(lista_final_decretos, Montados)
    /\ \A k \in 1..Len(q3_linhas) : q3_linhas[k].fonte_de_recurso = Excesso

C5_Witness ==
    /\ pc = "fim"
    /\ Len(lista_final_decretos) = 1
    /\ NomesDasFontes(lista_final_decretos[1]) = <<Excesso>>
    /\ Len(q3_linhas) = 1

\* the code column the documentation gives a funding source
CodigoEsperado(fonte) ==
    IF "codigo_fonte" \in DOMAIN fonte /\ fonte["codigo_fonte"] \notin {Nulo, ""}
    THEN fonte["codigo_fonte"] ELSE NaoEncontrado

EhExcesso(fonte) == NomeDe(fonte) = Excesso
CodigosEsperados(dec) ==
    LET fs == SelectSeq(GetFontes(dec), EhExcesso)
    IN [k \in 1..Len(fs) |-> CodigoEsperado(fs[k])]

RECURSIVE CodigosAte(_, _)
CodigosAte(decs, n) ==
    IF n = 0 THEN <<>> ELSE CodigosAte(decs, n - 1) \o CodigosEsperados(decs[n])

\* C6: at every point of the assembly every Table 3 row has a code that is
\* not null: the source's codigo_fonte when it has one, "Não encontrado"
\* when codigo_fonte is null, missing or empty.
C6_Table3CodeNeverNull ==
    /\ \A k \in 1..Len(q3_linhas) : q3_linhas[k].codigo_da_fonte # Nulo
    /\ [k \in 1..Len(q3_linhas) |-> q3_linhas[k].codigo_da_fonte]
          = CodigosAte(lista_final_decretos, Montados)

C6_Witness ==
    /\ pc = "fim"
    /\ Len(lista_final_decretos) = 1
    /\ Len(GetFontes(lista_final_decretos[1])) = 3
    /\ "codigo_fonte" \notin DOMAIN GetFontes(lista_final_decretos[1])[2]
    /\ [k \in 1..Len(q3_linhas) |-> q3_linhas[k].codigo_da_fonte]
          = <<Codigo10, NaoEncontrado, NaoEncontrado>>

NomesDistintos(dec) ==
    {NomeDe(GetFontes(dec)[k]) : k \in 1..Len(GetFontes(dec))} \ {Nulo, ""}

\* texto is the names of the set, each once, ascending, joined by ", "
ListaOrdenadaDe(texto, nomes) ==
    \E s \in [1..Cardinality(nomes) -> nomes] :
        /\ \A a, b \in 1..Cardinality(nomes) : a < b => Menor(s[a], s[b])
        /\ texto = Join(s)

\* C8: the "fonte de recurso" value of a record's Table 1 row lists every
\* distinct non-empty nome_da_fonte of the record once, in ascending order,
\* joined by ", ".
C8_Table1SourcesSortedNoDuplicates ==
    /\ Len(q1_linhas) = Montados
    /\ \A j \in 1..Montados :
          ListaOrdenadaDe(q1_linhas[j].fonte_de_recurso,
                          NomesDistintos(lista_final_decretos[j]))

C8_Witness ==
    /\ pc = "fim"
    /\ Len(lista_final_decretos) = 1
    /\ NomesDasFontes(lista_final_decretos[1])
          = <<"Superávit Financeiro", "Anulação de Dotações", "Superávit Financeiro">>
    /\ q1_linhas[1].fonte_de_recurso = "Anulação de Dotações, Superávit Financeiro"

\* a float of at most two decimals in thousands-dot/decimal-comma notation
EmBRL(v) ==
    Replace(Milhares(DigitosDe(v.n)), ",", ".") \o <<",">>
    \o <<IF Len(v.casas) >= 1 THEN v.casas[1] ELSE "0",
         IF Len(v.casas) >= 2 THEN v.casas[2] ELSE "0">>

\* C9: formatar_valor_brl renders a number as its value with two decimals in
\* thousands-dot/decimal-comma notation (1884373.3 as "1.884.373,30",
\* 1234567.8 as "1.234.567,80") and returns "2.041.680,00" as it is.
C9_NumericInputKeepsItsValue ==
    pc = "formatado" =>
        /\ (valor_str.py = "float" /\ Len(valor_str.casas) <= 2)
              => retorno = PyStr(EmBRL(valor_str))
        /\ valor_str = PyFloat(1884373, <<"3">>) => retorno = PyStr(<<"1", ".", "8", "8", "4", ".", "3", "7", "3", ",", "3", "0">>)
        /\ valor_str = PyFloat(1234567, <<"8">>) => retorno = PyStr(<<"1", ".", "2", "3", "4", ".", "5", "6", "7", ",", "8", "0">>)
        /\ valor_str = PyStr(<<"2", ".", "0", "4", "1", ".", "6", "8", "0", ",", "0", "0">>) => retorno = PyStr(<<"2", ".", "0", "4", "1", ".", "6", "8", "0", ",", "0", "0">>)

\* the arguments the documentation calls unparsable: null, text without a
\* digit, text with more than one comma
SemNumero(v) ==
    \/ v.py = "None"
    \/ /\ v.py = "str"
       /\ \/ \A k \in 1..Len(v.s) : ~EhDigito(v.s[k])
          \/ Cardinality(Posicoes(v.s, ",")) > 1

\* C10: for an argument that cannot be read as a number ("garbage", the empty
\* string, null, a string with more than one comma) formatar_valor_brl
\* returns the argument itself.
C10_UnparsableInputReturnedUnchanged ==
    (pc = "formatado" /\ SemNumero(valor_str)) => retorno = valor_str

C10_Witness ==
    /\ pc = "formatado"
    /\ valor_str = PyStr(<<"1", ",", "2", ",", "3">>)
    /\ retorno = PyStr(<<"1", ",", "2", ",", "3">>)

\* the run is over, normally or by an uncaught exception
RunEnded == pc \in {"montar", "fim", "abortado"}

\* C11: over a whole run the oracle is called exactly once for every
\* admissible block and never for a block without both article markers; a
\* failed or malformed call is not repeated, so the calls of a run are as
\* many as its admissible blocks.
C11_OneCallPerAdmissibleBlock ==
    /\ \A k \in 1..Len(respostas) : respostas[k].bloco \in BlocosAdmissiveis
    /\ \A a, b \in 1..Len(respostas) : a < b => respostas[a].bloco < respostas[b].bloco
    /\ RunEnded => Len(respostas) = Cardinality(BlocosAdmissiveis)

\* how often the keyword DECRETO of a decree header stands in a text
NumPalavraDecreto(texto) ==
    Cardinality({k \in 1..Len(texto) : texto[k] \in Cabecalhos \cup {PalavraDecreto}})

\* C12: the request for a block holds, in the region of the template made
\* for it, exactly the block that segmentation produced, nothing added,
\* removed or repeated; the header keyword is there as often as in the block.
C12_PromptEmbedsBlockVerbatim ==
    \A k \in 1..Len(respostas) :
        /\ respostas[k].prompt.regiao = blocos_decretos[respostas[k].bloco]
        /\ NumPalavraDecreto(respostas[k].prompt.regiao)
              = NumPalavraDecreto(blocos_decretos[respostas[k].bloco])

\* the blocks one after the other, a newline between two of them
RECURSIVE ComNovaLinha(_)
ComNovaLinha(bs) ==
    IF bs = <<>> THEN <<>>
    ELSE IF Len(bs) = 1 THEN Head(bs)
    ELSE Head(bs) \o <<NL>> \o ComNovaLinha(Tail(bs))

\* texto is the blocks joined by the newlines the split took away, after a
\* blank first piece that was dropped, if any
Reconstroi(texto, bs) ==
    \/ texto = ComNovaLinha(bs)
    \/ \E n \in 0..Len(texto) :
          /\ EmBranco(SubSeq(texto, 1, n))
          /\ texto = IF bs = <<>> THEN SubSeq(texto, 1, n)
                     ELSE SubSeq(texto, 1, n) \o <<NL>> \o ComNovaLinha(bs)

ParesQuadro2(dec) ==
    LET fs == GetFontes(dec)
    IN IF Len(fs) >= 2
       THEN [k \in 1..Len(fs) |-> <<Get(dec, "numero_decreto"), NomeDe(fs[k])>>]
       ELSE <<>>
\* the (decree number, code) pairs of the Table 3 rows of one record
ParesQuadro3(dec) ==
    LET fs == SelectSeq(GetFontes(dec), EhExcesso)
    IN [k \in 1..Len(fs) |-> <<Get(dec, "numero_decreto"), CodigoEsperado(fs[k])>>]

RECURSIVE ParesQuadro2Ate(_, _)
ParesQuadro2Ate(decs, n) ==
    IF n = 0 THEN <<>> ELSE ParesQuadro2Ate(decs, n - 1) \o ParesQuadro2(decs[n])
RECURSIVE ParesQuadro3Ate(_, _)
ParesQuadro3Ate(decs, n) ==
    IF n = 0 THEN <<>> ELSE ParesQuadro3Ate(decs, n - 1) \o ParesQuadro3(decs[n])

\* C14: in the three tables the rows of the records of an earlier block come
\* before the rows of the records of a later block, and the Table 2 and
\* Table 3 rows of one record follow the order of its list of sources.
C14_RowsKeepDocumentOrder ==
    pc \in {"montar", "fim"} =>
        LET regs == RegistrosBemFormados(variante, respostas, Len(respostas))
        IN /\ \A a, b \in 1..Len(respostas) :
                 a < b => respostas[a].bloco < respostas[b].bloco
           /\ NumerosDe(q1_linhas) = NumerosDosRegistros(SubSeq(regs, 1, Montados))
           /\ [k \in 1..Len(q2_linhas) |->
                  <<q2_linhas[k].numero_do_decreto, q2_linhas[k].fonte_de_recurso>>]
                 = ParesQuadro2Ate(regs, Montados)
           /\ [k \in 1..Len(q3_linhas) |->
                  <<q3_linhas[k].numero_do_decreto, q3_linhas[k].codigo_da_fonte>>]
                 = ParesQuadro3Ate(regs, Montados)

C14_Witness ==
    /\ pc = "fim"
    /\ Len(respostas) = 2
    /\ respostas[1].resp = RespDecretos(variante, <<DecretoDoisExcessos>>)
    /\ respostas[2].resp = RespDecretos(variante, <<DecretoUmaFonte, DecretoDuasFontes>>)
    /\ NumerosDe(q1_linhas) = <<"15/2023", "13/2023", "12/2023">>
    /\ NumerosDe(q2_linhas) = <<"15/2023", "15/2023", "12/2023", "12/2023">>
    /\ [k \in 1..Len(q3_linhas) |-> q3_linhas[k].codigo_da_fonte]
          = <<"1753000000", Codigo10, Codigo10>>

\* the well-formed replies of script v for a decree with one funding source,
\* and for a decree with two of which one is "Excesso de Arrecadação" with a
\* 10-digit code: the record with its list of sources under the key of the
\* script and, for ver4, the quadros its prompt asks for
RespostasUmaFonte(v) ==
    {RespDecretos(v, <<DecretoUmaFonte>>)}
    \cup (IF v = "ver4" THEN {QuadrosUmaFonte} ELSE {})
RespostasDuasFontes(v) ==
    {RespDecretos(v, <<DecretoDuasFontes>>)}
    \cup (IF v = "ver4" THEN {QuadrosDuasFontes} ELSE {})

\* a finished run over two admissible blocks, answered for a decree with one
\* source and for a decree with two
DoisDecretos ==
    /\ pc = "fim"
    /\ Len(blocos_decretos) = 2
    /\ BlocosAdmissiveis = {1, 2}
    /\ Len(respostas) = 2
    /\ respostas[1].resp \in RespostasUmaFonte(variante)
    /\ respostas[2].resp \in RespostasDuasFontes(variante)

\* C15: a run over two admissible blocks whose replies are well-formed, the
\* first for a decree with one funding source, the second for a decree with
\* two of which one is "Excesso de Arrecadação" with a 10-digit code, ends
\* with 2 rows in Table 1, 2 rows in Table 2, both of the second decree, and 1
\* row in Table 3.
C15_EndToEndTwoDecrees ==
    DoisDecretos =>
        /\ Len(q1_linhas) = 2
        /\ NumerosDe(q2_linhas) = <<"12/2023", "12/2023">>
        /\ Len(q3_linhas) = 1

\* the three files of the run, whatever rows they hold
TresQuadros ==
    /\ Cardinality(arquivos) = 3
    /\ {a.nome : a \in arquivos}
          = {"quadro1" \o variante, "quadro2" \o variante, "quadro3" \o variante}

\* C16: a run of ver3 or ver4 that has its credential and its input file
\* writes the three tables when at least one record was extracted, and when
\* none was (every block skipped, failed, malformed or empty) writes none and
\* ends normally.
C16_EmissionAllOrNothing ==
    (api_key /\ arquivo_existe /\ pc \in {"fim", "abortado"}) =>
        /\ lista_final_decretos # <<>> => TresQuadros
        /\ lista_final_decretos = <<>> => arquivos = {} /\ pc = "fim"

====
